---- MODULE Spec2Model ----
(***************************************************************************)
(* Model of the upload / job-lifecycle client of src/app.js.               *)
(*                                                                         *)
(* Spec       : one run of uploadFiles(files, email, progressCallback)     *)
(*              against a transport (fetch) and a FileReader whose         *)
(*              outcomes are chosen by the environment.                    *)
(* SpecOpaque : Spec, with a ghost recording that the backend refused a    *)
(*              request behind the opaque response of a POST.              *)
(* SpecLive   : Spec, with every read and every transport call completing  *)
(*              and every continuation resumed (weak fairness).            *)
(* SpecJobId  : the run of one file, started at any of a set of instants.  *)
(* SpecGet    : one call of getJobStatus / getJobResults / getDownloadUrl. *)
(*                                                                         *)
(* Abstractions: file contents are not enumerated, a blob is the byte      *)
(* range [start, end) of the file it was sliced from; percentages are      *)
(* exact fractions <<numerator, denominator>> (the code computes them in   *)
(* IEEE doubles).                                                          *)
(***************************************************************************)
EXTENDS Integers, Sequences, FiniteSets, TLC

VARIABLES
    files,        \* argument: sequence of [name, size]
    email,        \* argument
    now,          \* the wall clock when uploadFiles is called, [day, ms]; the code
                  \* reads it only before its first await
    pc,           \* position of the uploadFiles coroutine
    jobId,        \* const jobId (app.js:23)
    i,            \* loop variable of uploadFiles (app.js:37), 0-based
    chunk,        \* arguments of the running uploadFileChunk call, or NoChunk
    fetchState,   \* promise of the last fetch: "none" | "pending" | "fulfilled" | "rejected"
    fetchError,   \* message of the rejection of the last fetch
    inflight,     \* number of fetches started and not yet settled
    requests,     \* every fetch started so far, in order
    progress,     \* every progressCallback invocation so far, in order
    outcome,      \* how the promise returned by uploadFiles settled
    failures,     \* transport failures so far: [request, message]
    backendRefused,\* the backend refused some POST behind its opaque response
    get           \* state of the running GET accessor

uploadVars == <<files, email, now, pc, jobId, i, chunk, fetchState, fetchError,
                inflight, requests, progress, outcome, failures, backendRefused>>
vars == <<files, email, now, pc, jobId, i, chunk, fetchState, fetchError,
          inflight, requests, progress, outcome, failures, backendRefused, get>>

-----------------------------------------------------------------------------
(* Bounds of the model *)

MaxFiles == 3

(* Program constants *)

MiB == 1024 * 1024
chunkSize == 10 * 1024 * 1024
APPS_SCRIPT_URL ==
    "https://script.google.com/macros/s/AKfycbxfSjbhX4dqAtptYecF-9zpAtKYSswn2cJQT0n28ndeZzwZRsBM0X_gaNH3f3AHmIbu4w/exec"

(* Inputs *)

\* the names of a list of n files: distinct names in either order, or one name n times
NameSchemes == {"ascending", "descending", "same"}
FileName(scheme, j, n) ==
    CASE scheme = "ascending"  -> "sample" \o ToString(j) \o ".fq.gz"
      [] scheme = "descending" -> "sample" \o ToString(n + 1 - j) \o ".fq.gz"
      [] scheme = "same"       -> "reads.fastq.gz"
FileSizes == {0, MiB, chunkSize, chunkSize + 1, 2 * chunkSize, 25 * MiB}
Emails == {"user@example.org"}
TransportErrors == {"Failed to fetch"}
StartInstant == [day |-> 20760, ms |-> 86399000 + 500]   \* 2026-11-03T23:59:59.500Z

Min(a, b) == IF a <= b THEN a ELSE b

-----------------------------------------------------------------------------
(* Date.prototype.toISOString and the string operations of generateJobId.  *)
(* Strings are handled as sequences of one-character strings.              *)

Digit(n) == <<"0", "1", "2", "3", "4", "5", "6", "7", "8", "9">>[n + 1]

RECURSIVE Pad(_, _)
Pad(n, w) == IF w = 0 THEN <<>> ELSE Pad(n \div 10, w - 1) \o <<Digit(n % 10)>>

\* civil date of a day number counted from 1970-01-01 (proleptic Gregorian)
CivilFromDays(days) ==
    LET z   == days + 719468
        era == z \div 146097
        doe == z - era * 146097
        yoe == (doe - doe \div 1460 + doe \div 36524 - doe \div 146096) \div 365
        doy == doe - (365 * yoe + yoe \div 4 - yoe \div 100)
        mp  == (5 * doy + 2) \div 153
        d   == doy - (153 * mp + 2) \div 5 + 1
        m   == IF mp < 10 THEN mp + 3 ELSE mp - 9
        y   == yoe + era * 400 + (IF m <= 2 THEN 1 ELSE 0)
    IN  [year |-> y, month |-> m, date |-> d]

\* "YYYY-MM-DDTHH:mm:ss.sssZ"
toISOString(t) ==
    LET c  == CivilFromDays(t.day)
        s  == t.ms \div 1000
    IN  Pad(c.year, 4) \o <<"-">> \o Pad(c.month, 2) \o <<"-">> \o Pad(c.date, 2)
        \o <<"T">> \o Pad(s \div 3600, 2) \o <<":">> \o Pad((s \div 60) % 60, 2)
        \o <<":">> \o Pad(s % 60, 2) \o <<".">> \o Pad(t.ms % 1000, 3) \o <<"Z">>

\* s.replace(/[-:]/g, '')
IsNotDashOrColon(ch) == ch \notin {"-", ":"}
RemoveDashColon(s) == SelectSeq(s, IsNotDashOrColon)

\* s.replace('T', '_'): the first occurrence only
RECURSIVE ReplaceFirstT(_)
ReplaceFirstT(s) ==
    IF s = <<>> THEN <<>>
    ELSE IF Head(s) = "T" THEN <<"_">> \o Tail(s)
    ELSE <<Head(s)>> \o ReplaceFirstT(Tail(s))

\* s.substring(0, n)
Substring0(s, n) == SubSeq(s, 1, Min(n, Len(s)))

RECURSIVE Join(_)
Join(s) == IF s = <<>> THEN "" ELSE Head(s) \o Join(Tail(s))

\* (mutant) the timestamp is cut after the minutes
generateJobIdToMinute(t) ==
    LET timestamp == Substring0(ReplaceFirstT(RemoveDashColon(toISOString(t))), 13)
    IN  "job_" \o Join(timestamp)

generateJobId(t) ==
    LET timestamp == Substring0(ReplaceFirstT(RemoveDashColon(toISOString(t))), 15)
    IN  "job_" \o Join(timestamp)

-----------------------------------------------------------------------------
(* Blobs, FileReader, percentages *)

NoChunk == [none |-> TRUE]
Pending == [state |-> "pending"]

\* the File object at position j (1-based) of the argument list
File(j) == [file |-> j, start |-> 0, end |-> files[j].size]

BlobSize(b) == b.end - b.start

\* Blob.prototype.slice(start, end) for 0 <= start, end: both are clamped to the size
slice(b, start, end) ==
    LET lo == Min(start, BlobSize(b))
        hi == Min(end, BlobSize(b))
    IN  [file  |-> b.file,
         start |-> b.start + lo,
         end   |-> b.start + (IF hi < lo THEN lo ELSE hi)]

\* Math.ceil(a / b) for a >= 0, b > 0
Ceil(a, b) == IF a % b = 0 THEN a \div b ELSE a \div b + 1

\* base64 of the bytes of a blob: which bytes, and the length of the text
Base64(b) == [bytes |-> b, length |-> 4 * Ceil(BlobSize(b), 3)]

\* reader.result of readAsDataURL, already split at its comma
DataURL(b) == <<"data:application/octet-stream;base64", Base64(b)>>

\* exact percentages
Pct(n) == <<n, 1>>
PctLeq(a, b) == a[1] * b[2] <= b[1] * a[2]
PctEq(a, b) == a[1] * b[2] = b[1] * a[2]

-----------------------------------------------------------------------------
(* The requests of uploadFiles *)

PostInit(body) ==
    [url     |-> APPS_SCRIPT_URL,
     method  |-> "POST",
     mode    |-> "no-cors",
     headers |-> [ContentType |-> "application/json"],
     body    |-> body]

\* fetch(url, init): the request leaves, its promise is pending
Fetch(req) ==
    /\ requests' = Append(requests, req)
    /\ inflight' = inflight + 1
    /\ fetchState' = "pending"
    /\ fetchError' = ""

createJobManifest(id, mail, fileNames) ==
    LET manifest == [job_id     |-> id,
                     user_email |-> mail,
                     timestamp  |-> Join(toISOString(now)),
                     files      |-> fileNames,
                     status     |-> "pending",
                     created_at |-> Join(toISOString(now))]
    IN  Fetch(PostInit([action |-> "create_job", data |-> manifest]))

\* (mutant) the id is generated again at finalization, a second later
markJobReadyNewId(id) ==
    Fetch(PostInit([action |-> "mark_ready",
                    data |-> [job_id |-> generateJobId([day |-> now.day,
                                                        ms  |-> (now.ms + 1000) % 86400000])]]))

markJobReady(id) ==
    Fetch(PostInit([action |-> "mark_ready", data |-> [job_id |-> id]]))

\* (mutant) the names are collected back to front
FileNamesReversed(fs) == [j \in 1..Len(fs) |-> fs[Len(fs) + 1 - j].name]

\* Array.from(files).map(f => f.name)
FileNamesOf(fs) == [j \in 1..Len(fs) |-> fs[j].name]

\* (mutant) the threshold is twice the chunk size
IsSmallFileDoubleThreshold(file) == file.size <= 2 * chunkSize

\* uploadSingleFile: the branch and the arguments of its k-th uploadFileChunk call
IsSmallFile(file) == file.size <= chunkSize

\* (mutant) Math.floor in place of Math.ceil
TotalChunksFloor(file) == file.size \div chunkSize

\* (mutant) Math.floor(...) + 1 in place of Math.ceil
TotalChunksFloorPlusOne(file) == file.size \div chunkSize + 1

TotalChunks(file) == Ceil(file.size, chunkSize)

\* (mutant) the end of the slice is taken as inclusive
ChunkCallInclusiveEnd(j, k) ==
    IF IsSmallFile(files[j])
    THEN [fileOrChunk |-> File(j), fileName |-> files[j].name,
          chunkIndex |-> 0, totalChunks |-> 1]
    ELSE LET start == k * chunkSize
             end   == Min(start + chunkSize - 1, files[j].size)
         IN  [fileOrChunk |-> slice(File(j), start, end), fileName |-> files[j].name,
              chunkIndex |-> k, totalChunks |-> TotalChunks(files[j])]

ChunkCall(j, k) ==
    IF IsSmallFile(files[j])
    THEN [fileOrChunk |-> File(j), fileName |-> files[j].name,
          chunkIndex |-> 0, totalChunks |-> 1]
    ELSE LET start == k * chunkSize
             end   == Min(start + chunkSize, files[j].size)
         IN  [fileOrChunk |-> slice(File(j), start, end), fileName |-> files[j].name,
              chunkIndex |-> k, totalChunks |-> TotalChunks(files[j])]

\* (mutant) i <= totalChunks in the loop condition
MoreChunksInclusive(j, c) ==
    /\ ~IsSmallFile(files[j])
    /\ c.chunkIndex + 1 <= c.totalChunks

\* the for loop of uploadSingleFile goes round again after chunk c
MoreChunks(j, c) ==
    /\ ~IsSmallFile(files[j])
    /\ c.chunkIndex + 1 < c.totalChunks

\* (mutant) the files are spread over 100 points instead of 80
FileProgressOver100(k, totalFiles) == <<10 * totalFiles + (k + 1) * 100, totalFiles>>

\* (mutant) i in place of i + 1
FileProgressFromIndex(k, totalFiles) == <<10 * totalFiles + k * 80, totalFiles>>

\* 10 + ((i + 1) / totalFiles) * 80, with i 0-based
FileProgress(k, totalFiles) == <<10 * totalFiles + (k + 1) * 80, totalFiles>>

\* (mutant) the promise is not awaited
SettledOrNot == TRUE

\* await p: the coroutine resumes once p has settled
Settled == fetchState # "pending"

\* (mutant) the rejection of the awaited promise is swallowed
ThrewNever == FALSE

\* (mutant) a response the backend refused is thrown as well
ThrewOrRefused == fetchState = "rejected" \/ backendRefused

\* await p throws
Threw == fetchState = "rejected"

\* (mutant) the caught error is rethrown as it is
CatchRethrow(message) ==
    /\ pc' = "rejected"
    /\ outcome' = [state |-> "rejected", message |-> message]

\* catch (error) { throw new Error('Upload failed: ' + error.message) }
Catch(message) ==
    /\ pc' = "rejected"
    /\ outcome' = [state |-> "rejected", message |-> "Upload failed: " \o message]

-----------------------------------------------------------------------------
(* One run of uploadFiles *)

Suspended == {"createJobManifest", "readAsDataURL", "uploadFileChunk", "markJobReady"}

GetIdle == [pc |-> "idle"]

Init ==
    /\ \E n \in 0..MaxFiles, scheme \in NameSchemes :
          \E sizes \in [1..n -> FileSizes] :
              files = [j \in 1..n |-> [name |-> FileName(scheme, j, n), size |-> sizes[j]]]
    /\ email \in Emails
    /\ now = StartInstant
    /\ pc = "idle"
    /\ jobId = ""
    /\ i = 0
    /\ chunk = NoChunk
    /\ fetchState = "none"
    /\ fetchError = ""
    /\ inflight = 0
    /\ requests = <<>>
    /\ progress = <<>>
    /\ outcome = Pending
    /\ failures = <<>>
    /\ backendRefused = FALSE
    /\ get = GetIdle

\* uploadFiles up to its first await (app.js:21-30)
uploadFiles ==
    /\ pc = "idle"
    /\ jobId' = generateJobId(now)
    /\ progress' = <<<<Pct(0), "Creating job...">>>>
    /\ createJobManifest(jobId', email, FileNamesOf(files))
    /\ pc' = "createJobManifest"
    /\ UNCHANGED <<files, email, now, i, chunk, outcome, failures, backendRefused, get>>

\* the head of the for loop of uploadFiles with i = k, after the callbacks in p
\* (app.js:37-53): the next file is handed to the FileReader, or the job is finalized
LoopHead(k, p) ==
    IF k < Len(files)
    THEN /\ progress' = Append(p, <<FileProgress(k, Len(files)),
                                    "Uploading file " \o ToString(k + 1) \o " of "
                                        \o ToString(Len(files)) \o "...",
                                    files[k + 1].name>>)
         /\ i' = k
         /\ chunk' = ChunkCall(k + 1, 0)
         /\ pc' = "readAsDataURL"
         /\ UNCHANGED <<requests, inflight, fetchState, fetchError>>
    ELSE /\ progress' = Append(p, <<Pct(95), "Finalizing upload...">>)
         /\ i' = k
         /\ chunk' = NoChunk
         /\ markJobReady(jobId)
         /\ pc' = "markJobReady"

\* the await of createJobManifest returns or throws (app.js:30-32, 59-62)
AfterCreateJob ==
    /\ pc = "createJobManifest"
    /\ Settled
    /\ IF Threw
       THEN /\ Catch(fetchError)
            /\ UNCHANGED <<i, chunk, fetchState, fetchError, inflight, requests, progress>>
       ELSE /\ LoopHead(0, Append(progress, <<Pct(10), "Uploading files...">>))
            /\ UNCHANGED outcome
    /\ UNCHANGED <<files, email, now, jobId, failures, backendRefused, get>>

\* reader.onload: the chunk is encoded and posted (app.js:137-157)
ReaderOnload ==
    /\ pc = "readAsDataURL"
    /\ LET base64Data == DataURL(chunk.fileOrChunk)[2]
       IN  Fetch(PostInit([action |-> "upload_file",
                           data   |-> [job_id       |-> jobId,
                                       file_name    |-> chunk.fileName,
                                       file_data    |-> base64Data,
                                       chunk_index  |-> chunk.chunkIndex,
                                       total_chunks |-> chunk.totalChunks]]))
    /\ pc' = "uploadFileChunk"
    /\ UNCHANGED <<files, email, now, jobId, i, chunk, progress, outcome, failures,
                   backendRefused, get>>

\* (mutant) no onerror handler: a failed read settles nothing
ReaderOnerrorUnhandled ==
    /\ pc = "readAsDataURL"
    /\ pc' = "readError"
    /\ UNCHANGED <<files, email, now, jobId, i, chunk, fetchState, fetchError, inflight,
                   requests, progress, outcome, failures, backendRefused, get>>

\* (mutant) onerror rejects with the event, which has no message
ReaderOnerrorRejectsEvent ==
    /\ pc = "readAsDataURL"
    /\ Catch("undefined")
    /\ UNCHANGED <<files, email, now, jobId, i, chunk, fetchState, fetchError, inflight,
                   requests, progress, failures, backendRefused, get>>

\* reader.onerror rejects, uploadFiles catches (app.js:165-167, 59-62)
ReaderOnerror ==
    /\ pc = "readAsDataURL"
    /\ Catch("Failed to read file")
    /\ UNCHANGED <<files, email, now, jobId, i, chunk, fetchState, fetchError, inflight,
                   requests, progress, failures, backendRefused, get>>

\* the await of fetch in reader.onload returns or throws; on return the next chunk,
\* the next file or the finalization follows (app.js:159-162, 120-126, 37-53)
AfterUploadChunk ==
    /\ pc = "uploadFileChunk"
    /\ Settled
    /\ IF Threw
       THEN /\ Catch(fetchError)
            /\ UNCHANGED <<i, chunk, fetchState, fetchError, inflight, requests, progress>>
       ELSE IF MoreChunks(i + 1, chunk)
       THEN /\ chunk' = ChunkCall(i + 1, chunk.chunkIndex + 1)
            /\ pc' = "readAsDataURL"
            /\ UNCHANGED <<i, fetchState, fetchError, inflight, requests, progress, outcome>>
       ELSE /\ LoopHead(i + 1, progress)
            /\ UNCHANGED outcome
    /\ UNCHANGED <<files, email, now, jobId, failures, backendRefused, get>>

\* (mutant) the last callback sits in a finally block
AfterMarkReadyFinally ==
    /\ pc = "markJobReady"
    /\ Settled
    /\ progress' = Append(progress, <<Pct(100), "Upload complete!">>)
    /\ IF Threw
       THEN Catch(fetchError)
       ELSE /\ pc' = "returned"
            /\ outcome' = [state |-> "fulfilled", value |-> jobId]
    /\ UNCHANGED <<files, email, now, jobId, i, chunk, fetchState, fetchError, inflight,
                   requests, failures, backendRefused, get>>

\* the await of markJobReady returns or throws (app.js:53-62)
AfterMarkReady ==
    /\ pc = "markJobReady"
    /\ Settled
    /\ IF Threw
       THEN /\ Catch(fetchError)
            /\ UNCHANGED progress
       ELSE /\ progress' = Append(progress, <<Pct(100), "Upload complete!">>)
            /\ pc' = "returned"
            /\ outcome' = [state |-> "fulfilled", value |-> jobId]
    /\ UNCHANGED <<files, email, now, jobId, i, chunk, fetchState, fetchError, inflight,
                   requests, failures, backendRefused, get>>

(* The environment *)

\* the transport settles the pending fetch with an opaque (no-cors) response: the code
\* cannot tell what the backend made of the request
FetchFulfilled ==
    /\ inflight > 0
    /\ fetchState = "pending"
    /\ fetchState' = "fulfilled"
    /\ inflight' = inflight - 1
    /\ UNCHANGED <<files, email, now, pc, jobId, i, chunk, fetchError, requests, progress,
                   outcome, failures, backendRefused, get>>

\* the same, the backend having refused the request behind the opaque response
FetchFulfilledRefused ==
    /\ inflight > 0
    /\ fetchState = "pending"
    /\ fetchState' = "fulfilled"
    /\ inflight' = inflight - 1
    /\ backendRefused' = TRUE
    /\ UNCHANGED <<files, email, now, pc, jobId, i, chunk, fetchError, requests, progress,
                   outcome, failures, get>>

\* the transport rejects the pending fetch
FetchRejected ==
    /\ inflight > 0
    /\ fetchState = "pending"
    /\ \E message \in TransportErrors :
          /\ fetchError' = message
          /\ failures' = Append(failures, [request |-> Len(requests), message |-> message])
    /\ fetchState' = "rejected"
    /\ inflight' = inflight - 1
    /\ UNCHANGED <<files, email, now, pc, jobId, i, chunk, requests, progress, outcome,
                   backendRefused, get>>

Next ==
    \/ uploadFiles
    \/ AfterCreateJob
    \/ ReaderOnload
    \/ ReaderOnerror
    \/ AfterUploadChunk
    \/ AfterMarkReady
    \/ FetchFulfilled
    \/ FetchRejected

Spec == Init /\ [][Next]_vars

\* the run when every file read and every transport call eventually completes, and
\* the coroutine is resumed whenever the promise it awaits has settled
SpecLive ==
    /\ Init
    /\ [][Next]_vars
    /\ WF_vars(FetchFulfilled \/ FetchRejected)
    /\ WF_vars(ReaderOnload \/ ReaderOnerror)
    /\ WF_vars(AfterCreateJob)
    /\ WF_vars(AfterUploadChunk)
    /\ WF_vars(AfterMarkReady)

\* the run with the backend's hidden answers made visible
NextOpaque ==
    \/ Next
    \/ FetchFulfilledRefused

SpecOpaque == Init /\ [][NextOpaque]_vars

\* the run of one two-chunk file, started at any of a set of clock instants
Days == {0, 59, 11016, 20760, 20761, 2932896}
MsOfDay == {0, 999, 1000, 59999, 60000, 3599999, 3600000, 86399000, 86399999}
Instants == [day : Days, ms : MsOfDay]

InitJobId ==
    /\ files = <<[name |-> "reads.fastq.gz", size |-> chunkSize + 1]>>
    /\ email \in Emails
    /\ now \in Instants
    /\ pc = "idle"
    /\ jobId = ""
    /\ i = 0
    /\ chunk = NoChunk
    /\ fetchState = "none"
    /\ fetchError = ""
    /\ inflight = 0
    /\ requests = <<>>
    /\ progress = <<>>
    /\ outcome = Pending
    /\ failures = <<>>
    /\ backendRefused = FALSE
    /\ get = GetIdle

SpecJobId == InitJobId /\ [][Next]_vars

-----------------------------------------------------------------------------
(* getJobStatus, getJobResults, getDownloadUrl *)

JobIds == {"job_20261103_235959", "job_20261104_000000"}
FileIds == {"1AbC", "2dEf"}
Undefined == [undefined |-> TRUE]
Null == [null |-> TRUE]
Unparseable == [html |-> "<!DOCTYPE html>"]

\* JSON objects a backend may answer with
JsonObjects ==
    {
      [status |-> "complete"],
      [error |-> "Job not found"],
      [error |-> ""],
      [error |-> "", status |-> "processing"],
      [url |-> "https://drive.google.com/uc?id=1AbC"],
      [url |-> "https://drive.google.com/uc?id=1AbC", error |-> "File not found"],
      [files |-> <<[name |-> "counts.csv", id |-> "1AbC"]>>]
    }
Bodies == JsonObjects \cup {Null, Unparseable}
Responses ==
    [settled : {"fulfilled"}, ok : BOOLEAN, body : Bodies]
    \cup [settled : {"rejected"}, message : TransportErrors \cup {"Load failed"}]

\* a JavaScript string as a returned value
String(v) == [string |-> v]

\* obj.field of a JSON object whose fields are strings: undefined when it is missing
Field(obj, name) == IF name \in DOMAIN obj THEN String(obj[name]) ELSE Undefined

\* ToBoolean of a string or undefined
Truthy(v) == v # Undefined /\ v # String("")

\* the url, the init argument of fetch, and the messages of each accessor
GetUrl(fn, id, fileId) ==
    CASE fn = "getJobStatus"   -> APPS_SCRIPT_URL \o "?action=get_status&job_id=" \o id
      [] fn = "getJobResults"  -> APPS_SCRIPT_URL \o "?action=get_results&job_id=" \o id
      [] fn = "getDownloadUrl" -> APPS_SCRIPT_URL \o "?action=get_download_url&job_id=" \o id
                                      \o "&file_id=" \o fileId

GetHeaders(fn) ==
    CASE fn = "getJobStatus"   -> <<>>
      [] fn = "getJobResults"  -> <<>>
      [] fn = "getDownloadUrl" -> [ContentType |-> "application/json"]

NotOkMessage(fn) ==
    CASE fn = "getJobStatus"   -> "Failed to get status"
      [] fn = "getJobResults"  -> "Failed to get results"
      [] fn = "getDownloadUrl" -> "Failed to get download URL"

GetPrefix(fn) ==
    CASE fn = "getJobStatus"   -> "Could not retrieve job status: "
      [] fn = "getJobResults"  -> "Could not retrieve results: "
      [] fn = "getDownloadUrl" -> "Could not get download URL: "

\* return data / return data.url
GetReturn(fn, data) == IF fn = "getDownloadUrl" THEN Field(data, "url") ELSE data

\* what the try block does with a settled fetch: a value is returned or a message thrown
GetTry(fn, response) ==
    IF response.settled = "rejected"
    THEN [threw |-> TRUE, message |-> response.message]
    ELSE IF ~response.ok
    THEN [threw |-> TRUE, message |-> NotOkMessage(fn)]
    ELSE IF response.body = Unparseable
    THEN [threw |-> TRUE, message |-> "Unexpected token '<', \"<!DOCTYPE \"... is not valid JSON"]
    ELSE IF response.body = Null
    THEN [threw |-> TRUE, message |-> "Cannot read properties of null (reading 'error')"]
    ELSE IF Truthy(Field(response.body, "error"))
    THEN [threw |-> TRUE, message |-> Field(response.body, "error").string]
    ELSE [threw |-> FALSE, value |-> GetReturn(fn, response.body)]

\* (mutant) the caught error is rethrown as it is
GetCatchRethrow(fn, tried) ==
    IF tried.threw
    THEN [state |-> "rejected", message |-> tried.message]
    ELSE [state |-> "fulfilled", value |-> tried.value]

\* catch (error) { throw new Error(prefix + error.message) }
GetCatch(fn, tried) ==
    IF tried.threw
    THEN [state |-> "rejected", message |-> GetPrefix(fn) \o tried.message]
    ELSE [state |-> "fulfilled", value |-> tried.value]

\* the accessor up to its await of fetch
GetRequest(fn, id, fileId) ==
    [pc      |-> "fetch",
     fn      |-> fn,
     request |-> [url |-> GetUrl(fn, id, fileId), method |-> "GET",
                  headers |-> GetHeaders(fn)]]

getJobStatus ==
    /\ get.pc = "idle"
    /\ \E id \in JobIds : get' = GetRequest("getJobStatus", id, "")
    /\ UNCHANGED uploadVars

getJobResults ==
    /\ get.pc = "idle"
    /\ \E id \in JobIds : get' = GetRequest("getJobResults", id, "")
    /\ UNCHANGED uploadVars

getDownloadUrl ==
    /\ get.pc = "idle"
    /\ \E id \in JobIds, fileId \in FileIds : get' = GetRequest("getDownloadUrl", id, fileId)
    /\ UNCHANGED uploadVars

\* the fetch settles and the accessor runs to its return or throw
GetSettles ==
    /\ get.pc = "fetch"
    /\ \E response \in Responses :
          get' = [pc       |-> "settled",
                  fn       |-> get.fn,
                  request  |-> get.request,
                  response |-> response,
                  result   |-> GetCatch(get.fn, GetTry(get.fn, response))]
    /\ UNCHANGED uploadVars

InitGet ==
    /\ files = <<>>
    /\ email \in Emails
    /\ now = StartInstant
    /\ pc = "idle"
    /\ jobId = ""
    /\ i = 0
    /\ chunk = NoChunk
    /\ fetchState = "none"
    /\ fetchError = ""
    /\ inflight = 0
    /\ requests = <<>>
    /\ progress = <<>>
    /\ outcome = Pending
    /\ failures = <<>>
    /\ backendRefused = FALSE
    /\ get = GetIdle

NextGet ==
    \/ getJobStatus
    \/ getJobResults
    \/ getDownloadUrl
    \/ GetSettles

SpecGet == InitGet /\ [][NextGet]_vars

-----------------------------------------------------------------------------
(* Vocabulary of the properties *)

ActionOf(n) == requests[n].body.action
DataOf(n) == requests[n].body.data
Sent(a) == {n \in 1..Len(requests) : ActionOf(n) = a}
Uploads == Sent("upload_file")

\* the position in the argument list of the file whose bytes request n carries
FileOf(n) == DataOf(n).file_data.bytes.file
UploadsOf(j) == {n \in Uploads : FileOf(n) = j}

\* request n is an upload_file request; requests n and m carry bytes of the same file
IsUpload(n) == n \in 1..Len(requests) /\ ActionOf(n) = "upload_file"
SameFile(n, m) == IsUpload(n) /\ IsUpload(m) /\ FileOf(n) = FileOf(m)

\* request n is the first / the last upload_file request sent so far for its file
FirstOfFile(n) == IsUpload(n) /\ ~SameFile(n - 1, n)
LastOfFile(n) == IsUpload(n) /\ ~SameFile(n, n + 1)

\* uploadSingleFile has returned for the file at position j
FileDone(j) == i >= j

\* the chunks a file of s bytes is cut into: ceil(s / C), and one for an empty file
ChunksOfSize(s) == IF s = 0 THEN 1 ELSE (s + chunkSize - 1) \div chunkSize

\* every request but the one in flight was answered by the transport without a failure
EarlierResolved(n) ==
    /\ \A f \in 1..Len(failures) : failures[f].request >= n
    /\ inflight = (IF fetchState = "pending" THEN 1 ELSE 0)

PercentAt(n) == progress[n][1]

-----------------------------------------------------------------------------
(* C1..C10 *)

\* C1: mark_ready is sent only after create_job and the upload_file request of every
\* chunk of every file have been sent and their transport calls have resolved, and no
\* request (in particular no upload_file) is sent after mark_ready.
C1_MarkReadyAfterAllData ==
    \A n \in Sent("mark_ready") :
        /\ n = Len(requests)
        /\ n > 1 /\ ActionOf(1) = "create_job"
        /\ \A j \in 1..Len(files) : \A k \in 0..(ChunksOfSize(files[j].size) - 1) :
              \E m \in UploadsOf(j) : m < n /\ DataOf(m).chunk_index = k
        /\ EarlierResolved(n)

C1_Witness ==
    /\ Sent("mark_ready") # {}
    /\ Cardinality(Uploads) >= 4
    /\ Len(files) >= 2

\* C2: a transport failure of any request aborts the run: the failed request is the
\* last one sent (nothing follows it, nothing is retried), the run never returns, and
\* once uploadFiles has settled the caller holds the single rejection
\* 'Upload failed: ' + the underlying message.
C2_FailureAborts ==
    failures # <<>> =>
        /\ Len(failures) = 1
        /\ failures[1].request = Len(requests)
        /\ inflight = 0
        /\ outcome.state # "fulfilled"
        /\ pc \in Suspended \cup {"rejected"}
        /\ pc \in Suspended => outcome = Pending
        /\ pc = "rejected" =>
              outcome = [state |-> "rejected",
                         message |-> "Upload failed: " \o failures[1].message]

C2_Witness ==
    /\ failures # <<>>
    /\ pc = "rejected"
    /\ ActionOf(failures[1].request) = "upload_file"
    /\ DataOf(failures[1].request).chunk_index = 1
    /\ Len(files) >= 2

\* C3: for a non-empty file list the percentages handed to the progress callback are
\* non-decreasing and start at 0, and the run that returns has ended them at 100.
C3_ProgressMonotone ==
    Len(files) > 0 =>
        /\ pc # "idle" => progress # <<>> /\ PctEq(PercentAt(1), Pct(0))
        /\ \A n \in 1..(Len(progress) - 1) : PctLeq(PercentAt(n), PercentAt(n + 1))
        /\ pc = "returned" => PctEq(PercentAt(Len(progress)), Pct(100))

C3_Witness ==
    /\ pc = "returned"
    /\ Len(files) = 3
    /\ Len(progress) = 7

\* C4 as stated: a file of S bytes whose upload has completed was sent in exactly
\* ceil(S / C) upload_file requests.
C4_Original ==
    \A j \in 1..Len(files) :
        FileDone(j) => Cardinality(UploadsOf(j)) = Ceil(files[j].size, chunkSize)

\* C4 as amended: a file of S > 0 bytes whose upload has completed was sent in exactly
\* ceil(S / C) upload_file requests, and an empty file (S = 0) in exactly one.
C4_ChunkCount ==
    \A j \in 1..Len(files) :
        FileDone(j) =>
            Cardinality(UploadsOf(j)) =
                (IF files[j].size = 0 THEN 1 ELSE Ceil(files[j].size, chunkSize))

C4_Witness ==
    \E j \in 1..Len(files) :
        /\ FileDone(j)
        /\ files[j].size = 25 * MiB
        /\ Cardinality(UploadsOf(j)) = 3

\* C5: the payload of chunk i of a file of S bytes is exactly the bytes
\* [i*C, min((i+1)*C, S)); the chunks of a file are therefore disjoint and adjacent
\* from byte 0 on, and those of a completed file cover [0, S), the last one having
\* S - (totalChunks-1)*C bytes.
C5_ChunkBytes ==
    \A n \in Uploads :
        LET d == DataOf(n)
            b == d.file_data.bytes
            S == files[b.file].size
        IN  /\ b.start = d.chunk_index * chunkSize
            /\ b.end = Min((d.chunk_index + 1) * chunkSize, S)
            /\ FirstOfFile(n) => b.start = 0
            /\ SameFile(n, n + 1) =>
                  /\ DataOf(n + 1).file_data.bytes.start = b.end
                  /\ b.start < b.end
            /\ LastOfFile(n) /\ FileDone(b.file) =>
                  /\ b.end = S
                  /\ b.end - b.start = S - (d.total_chunks - 1) * chunkSize

C5_Witness ==
    \E j \in 1..Len(files) :
        /\ FileDone(j)
        /\ files[j].size = chunkSize + 1
        /\ \E n \in UploadsOf(j) :
              /\ DataOf(n).chunk_index = 1
              /\ DataOf(n).file_data.bytes = [file |-> j, start |-> chunkSize, end |-> chunkSize + 1]

\* C6: the upload_file requests of one file are sent one after the other and carry
\* chunk_index 0, 1, 2, ... in the order sent, with no gap and no repeat, all with the
\* same total_chunks; a completed file has sent exactly the indices 0 .. total_chunks-1.
C6_ChunkIndices ==
    \A n \in Uploads :
        LET d == DataOf(n)
        IN  /\ d.chunk_index < d.total_chunks
            /\ FirstOfFile(n) =>
                  /\ d.chunk_index = 0
                  /\ \A m \in 1..(n - 1) : IsUpload(m) => FileOf(m) < FileOf(n)
            /\ SameFile(n, n + 1) =>
                  /\ DataOf(n + 1).chunk_index = d.chunk_index + 1
                  /\ DataOf(n + 1).total_chunks = d.total_chunks
            /\ LastOfFile(n) /\ FileDone(FileOf(n)) => d.chunk_index = d.total_chunks - 1

C6_Witness ==
    \E j \in 1..Len(files) :
        /\ FileDone(j)
        /\ \E n \in UploadsOf(j) : DataOf(n).chunk_index = 2 /\ DataOf(n).total_chunks = 3

\* C7: files are transmitted in the order given: the first upload_file request of
\* file k is sent only when every file before it is complete, all its chunks sent, and
\* every earlier request has resolved; no request of an earlier file follows; and the
\* manifest of create_job lists the names in input order.
C7_FileOrder ==
    /\ \A n \in Uploads :
          /\ IsUpload(n + 1) => FileOf(n) <= FileOf(n + 1)
          /\ ActionOf(n - 1) \in {"create_job", "upload_file"}
          /\ DataOf(n).file_name = files[FileOf(n)].name
          /\ n = Len(requests) => EarlierResolved(n)
          /\ FirstOfFile(n) =>
                \A j \in 1..(FileOf(n) - 1) :
                    /\ FileDone(j)
                    /\ Cardinality({m \in 1..(n - 1) : IsUpload(m) /\ FileOf(m) = j})
                           = ChunksOfSize(files[j].size)
    /\ \A n \in Sent("create_job") :
          /\ Len(DataOf(n).files) = Len(files)
          /\ \A j \in 1..Len(files) : DataOf(n).files[j] = files[j].name

C7_Witness ==
    /\ Len(files) = 3
    /\ files[1].name = "sample3.fq.gz"
    /\ files[1].size > chunkSize
    /\ \E n \in Uploads : FileOf(n) = 3

\* C8: a run that returns has sent exactly one create_job, exactly one mark_ready and
\* as many upload_file requests as the files have chunks; no run sends a second
\* create_job or a second mark_ready.
RECURSIVE SumChunks(_)
SumChunks(fs) ==
    IF fs = <<>> THEN 0 ELSE ChunksOfSize(Head(fs).size) + SumChunks(Tail(fs))

C8_RequestCounts ==
    /\ Cardinality(Sent("create_job")) <= 1
    /\ Cardinality(Sent("mark_ready")) <= 1
    /\ pc = "returned" =>
          /\ Cardinality(Sent("create_job")) = 1
          /\ Cardinality(Sent("mark_ready")) = 1
          /\ Cardinality(Uploads) = SumChunks(files)
          /\ Len(requests) = 2 + SumChunks(files)

C8_Witness ==
    /\ pc = "returned"
    /\ Len(files) = 3
    /\ Cardinality(Uploads) = 6

\* C9: at most one network request of the run is in flight at any time: a request is
\* started only after the previous one has settled.
C9_OneInFlight ==
    /\ inflight <= 1
    /\ inflight = 1 <=> fetchState = "pending"
    /\ fetchState = "pending" => pc \in {"createJobManifest", "uploadFileChunk", "markJobReady"}

C9_Witness ==
    /\ inflight = 1
    /\ Len(requests) >= 4
    /\ ActionOf(Len(requests)) = "upload_file"

\* the phase each accessor names in its failure
PhasePrefix ==
    [getJobStatus   |-> "Could not retrieve job status: ",
     getJobResults  |-> "Could not retrieve results: ",
     getDownloadUrl |-> "Could not get download URL: "]

\* the message of the failure underlying a response that is no usable JSON object
UnderlyingMessage(fn, response) ==
    IF response.settled = "rejected" THEN response.message
    ELSE IF ~response.ok
    THEN [getJobStatus   |-> "Failed to get status",
          getJobResults  |-> "Failed to get results",
          getDownloadUrl |-> "Failed to get download URL"][fn]
    ELSE IF response.body = Unparseable
    THEN "Unexpected token '<', \"<!DOCTYPE \"... is not valid JSON"
    ELSE "Cannot read properties of null (reading 'error')"

CallFails(response) ==
    \/ response.settled = "rejected"
    \/ ~response.ok
    \/ response.body \in {Unparseable, Null}

Rejects(message) == get.result = [state |-> "rejected", message |-> message]

ReturnsData ==
    /\ get.result.state = "fulfilled"
    /\ get.result.value =
           (IF get.fn # "getDownloadUrl" THEN get.response.body
            ELSE IF "url" \in DOMAIN get.response.body
            THEN [string |-> get.response.body.url]
            ELSE Undefined)

\* C10 as stated: each accessor rejects, with its phase prefix followed by the
\* underlying message, whenever the call fails and whenever the response contains an
\* error field; otherwise it returns the response data (data.url for getDownloadUrl).
C10_Original ==
    get.pc = "settled" =>
        IF CallFails(get.response)
        THEN Rejects(PhasePrefix[get.fn] \o UnderlyingMessage(get.fn, get.response))
        ELSE IF "error" \in DOMAIN get.response.body
        THEN Rejects(PhasePrefix[get.fn] \o get.response.body.error)
        ELSE ReturnsData

\* C10 as amended: each accessor rejects, with its phase prefix followed by the
\* underlying message, whenever the call fails (transport rejection, non-ok response,
\* a body that is not JSON or is null) and whenever the response carries a non-empty
\* error field; otherwise (no error field, or an empty one) it returns the response
\* data (data.url for getDownloadUrl).
C10_GetRejects ==
    get.pc = "settled" =>
        IF CallFails(get.response)
        THEN Rejects(PhasePrefix[get.fn] \o UnderlyingMessage(get.fn, get.response))
        ELSE IF "error" \in DOMAIN get.response.body /\ get.response.body.error # ""
        THEN Rejects(PhasePrefix[get.fn] \o get.response.body.error)
        ELSE ReturnsData

C10_Witness ==
    /\ get.pc = "settled"
    /\ get.fn = "getDownloadUrl"
    /\ get.response.settled = "fulfilled"
    /\ get.response.ok
    /\ get.response.body = [url |-> "https://drive.google.com/uc?id=1AbC", error |-> "File not found"]
    /\ get.result = [state |-> "rejected",
                     message |-> "Could not get download URL: File not found"]

-----------------------------------------------------------------------------
(* C11..C20 *)

\* C11: every GET request issued by the client (get_status, get_results,
\* get_download_url) is sent with no request headers.
C11_NoGetHeaders ==
    get.pc # "idle" =>
        /\ get.request.method = "GET"
        /\ DOMAIN get.request.headers = {}

\* C12: the progress value 10 + (k/N)*80 of the k-th file is reported as that file
\* completes: only once every upload_file request of the k-th file has been sent and
\* has resolved; in particular 90% is reported only once all file data has been sent.
C12_ProgressAfterFile ==
    \A k \in 1..Len(files) :
        Len(progress) >= 2 + k =>
            /\ PctEq(PercentAt(2 + k), <<10 * Len(files) + 80 * k, Len(files)>>)
            /\ FileDone(k)
            /\ Cardinality(UploadsOf(k)) = ChunksOfSize(files[k].size)

\* the calendar dates of the days of Days, and the time of day, written out
DateOfDay(d) ==
    CASE d = 0       -> "19700101"
      [] d = 59      -> "19700301"
      [] d = 11016   -> "20000229"
      [] d = 20760   -> "20261103"
      [] d = 20761   -> "20261104"
      [] d = 2932896 -> "99991231"
TwoDigits(n) == IF n < 10 THEN "0" \o ToString(n) ELSE ToString(n)
TimeOfDay(ms) ==
    TwoDigits(ms \div 3600000) \o TwoDigits((ms \div 60000) % 60)
        \o TwoDigits((ms \div 1000) % 60)
SameSecond(t, u) == t.day = u.day /\ t.ms \div 1000 = u.ms \div 1000

\* C13: the job id of an instant has the form job_YYYYMMDD_HHMMSS; two instants that
\* differ in their second (also within one minute) get distinct ids, two instants in
\* the same second get the same id; the id is generated once per run: every request
\* of the run carries the id of the instant of the call.
C13_JobIdPerSecond ==
    /\ \A t \in Instants :
          /\ generateJobId(t) = "job_" \o DateOfDay(t.day) \o "_" \o TimeOfDay(t.ms)
          /\ SameSecond(t, now) <=> (generateJobId(t) = generateJobId(now))
    /\ pc # "idle" =>
          /\ jobId = "job_" \o DateOfDay(now.day) \o "_" \o TimeOfDay(now.ms)
          /\ \A n \in 1..Len(requests) : DataOf(n).job_id = jobId

C13_Witness ==
    /\ now = [day |-> 20760, ms |-> 59999]
    /\ generateJobId([day |-> 20760, ms |-> 1000]) = "job_20261103_000001"
    /\ jobId = "job_20261103_000059"
    /\ Len(requests) = 4
    /\ pc = "returned"

\* request n as <<action, file position, chunk_index, total_chunks, bytes carried>>
Shape(n) ==
    IF IsUpload(n)
    THEN <<"upload_file", FileOf(n), DataOf(n).chunk_index, DataOf(n).total_chunks,
           BlobSize(DataOf(n).file_data.bytes)>>
    ELSE <<ActionOf(n)>>

\* C14: three files of 1 MiB, 25 MiB and 1 MiB, a transport that always succeeds:
\* the run sends create_job, then 5 upload_file requests (one of 1 MiB; three of
\* 10, 10 and 5 MiB with chunk_index 0, 1, 2 and total_chunks 3; one of 1 MiB), then
\* mark_ready, and reports 0, 10, 10+80/3, 10+160/3, 90, 95, 100.
C14_EndToEnd ==
    /\ Len(files) = 3
    /\ files[1].size = MiB /\ files[2].size = 25 * MiB /\ files[3].size = MiB
    /\ pc = "returned"
    => /\ [n \in 1..Len(requests) |-> Shape(n)] =
              << <<"create_job">>,
                 <<"upload_file", 1, 0, 1, MiB>>,
                 <<"upload_file", 2, 0, 3, 10 * MiB>>,
                 <<"upload_file", 2, 1, 3, 10 * MiB>>,
                 <<"upload_file", 2, 2, 3, 5 * MiB>>,
                 <<"upload_file", 3, 0, 1, MiB>>,
                 <<"mark_ready">> >>
       /\ Len(progress) = 7
       /\ \A n \in 1..7 :
             PctEq(PercentAt(n),
                   << <<0, 1>>, <<10, 1>>, <<30 + 80, 3>>, <<30 + 160, 3>>,
                      <<90, 1>>, <<95, 1>>, <<100, 1>> >>[n])
       /\ failures = <<>>

C14_Witness ==
    /\ Len(files) = 3
    /\ files[1].size = MiB /\ files[2].size = 25 * MiB /\ files[3].size = MiB
    /\ pc = "returned"
    /\ Len(requests) = 7

\* C15: once uploadFiles has begun it eventually returns the job id or rejects,
\* provided every file read and every transport call eventually completes.
C15_Terminates == (pc # "idle") ~> (outcome.state \in {"fulfilled", "rejected"})

C15_Witness ==
    /\ outcome = [state |-> "fulfilled", value |-> "job_20261103_235959"]
    /\ Len(files) = 3
    /\ Len(requests) >= 6

\* C16: a POST the backend refused behind a transport call that resolved does not
\* abort the run: the run rejects only for a transport failure or a failed read, goes
\* on with the remaining requests, and when it returns it has sent every request,
\* reported 100% and returned the job id.
C16_RefusalUnseen ==
    backendRefused =>
        /\ pc \in Suspended \cup {"returned", "rejected"}
        /\ pc = "rejected" =>
              \/ failures # <<>>
              \/ outcome.message = "Upload failed: Failed to read file"
        /\ failures = <<>> /\ fetchState = "fulfilled" =>
              ENABLED (AfterCreateJob \/ AfterUploadChunk \/ AfterMarkReady)
                  \/ pc \in {"readAsDataURL", "returned", "rejected"}
        /\ pc = "returned" =>
              /\ outcome = [state |-> "fulfilled", value |-> jobId]
              /\ PctEq(PercentAt(Len(progress)), Pct(100))
              /\ Len(requests) = 2 + SumChunks(files)

C16_Witness ==
    /\ backendRefused
    /\ pc = "returned"
    /\ Len(files) = 3
    /\ Len(requests) = 8

\* the run was rejected without any transport failure: a read has failed, that of
\* the chunk held in the variable chunk, of the file at position i + 1
ReadFailed == pc = "rejected" /\ failures = <<>>

\* C17: when reading a file or chunk fails, no upload_file request is sent for that
\* chunk, no later chunk or file is uploaded, mark_ready is not sent (nothing at all is
\* sent any more), and uploadFiles rejects with 'Upload failed: Failed to read file'.
C17_ReadFailureAborts ==
    ReadFailed =>
        /\ outcome = [state |-> "rejected", message |-> "Upload failed: Failed to read file"]
        /\ chunk # NoChunk
        /\ \A n \in Uploads :
              \/ FileOf(n) < i + 1
              \/ FileOf(n) = i + 1 /\ DataOf(n).chunk_index < chunk.chunkIndex
        /\ Cardinality(Uploads) = Len(requests) - 1
        /\ Sent("mark_ready") = {}
        /\ inflight = 0
        /\ ~ENABLED Next

C17_Witness ==
    /\ ReadFailed
    /\ i = 1
    /\ chunk.chunkIndex = 2
    /\ Cardinality(Uploads) = 3

\* the files field of the manifest this run sent with create_job
ManifestFiles == DataOf(1).files

\* C18: every request of one run (create_job, every upload_file, mark_ready) carries
\* the same job_id, and the file_name of every upload_file request is one of the names
\* listed in the files field of the run's create_job manifest.
C18_OneJobId ==
    pc # "idle" =>
        /\ ActionOf(1) = "create_job"
        /\ \A n \in 1..Len(requests) : DataOf(n).job_id = DataOf(1).job_id
        /\ \A n \in Uploads :
              \E j \in DOMAIN ManifestFiles : ManifestFiles[j] = DataOf(n).file_name

C18_Witness ==
    /\ pc = "returned"
    /\ Len(files) = 3
    /\ files[1].name # files[2].name
    /\ Sent("mark_ready") # {}
    /\ Cardinality(Uploads) >= 4

\* the n-th percentage a run over totalFiles files reports when nothing fails
SuccessPercent(n, totalFiles) ==
    IF n = 1 THEN Pct(0)
    ELSE IF n = 2 THEN Pct(10)
    ELSE IF n <= 2 + totalFiles THEN <<10 * totalFiles + 80 * (n - 2), totalFiles>>
    ELSE IF n = 3 + totalFiles THEN Pct(95)
    ELSE Pct(100)

Reported100 == \E n \in 1..Len(progress) : PctEq(PercentAt(n), Pct(100))

\* C19: uploadFiles reports 100% and returns the job id only after the mark_ready
\* request has been sent and its transport call has resolved; a run that fails never
\* reports 100%, returns no job id, and has reported a prefix of the percentages of the
\* successful run.
C19_CompletionOnlyAfterMarkReady ==
    /\ Reported100 \/ outcome.state = "fulfilled" =>
          /\ Len(requests) >= 1
          /\ ActionOf(Len(requests)) = "mark_ready"
          /\ fetchState = "fulfilled"
          /\ inflight = 0
          /\ pc = "returned"
    /\ pc = "returned" =>
          /\ PctEq(PercentAt(Len(progress)), Pct(100))
          /\ outcome = [state |-> "fulfilled", value |-> jobId]
    /\ pc = "rejected" =>
          /\ ~Reported100
          /\ outcome.state = "rejected"
          /\ "value" \notin DOMAIN outcome
          /\ Len(progress) < 4 + Len(files)
          /\ \A n \in 1..Len(progress) :
                PctEq(PercentAt(n), SuccessPercent(n, Len(files)))

C19_Witness ==
    /\ pc = "rejected"
    /\ Len(files) = 2
    /\ Sent("mark_ready") # {}
    /\ Len(progress) = 5
    /\ PctEq(PercentAt(5), Pct(95))

\* C20: a file of size at most the chunk size (exactly 10 MiB and the empty file
\* included) is sent as exactly one upload_file request with chunk_index 0 and
\* total_chunks 1 whose payload is the whole file; a larger file is sent in at least
\* two requests.
C20_SmallFileOneRequest ==
    \A j \in 1..Len(files) :
        FileDone(j) =>
            IF files[j].size <= 10 * 1024 * 1024
            THEN /\ Cardinality(UploadsOf(j)) = 1
                 /\ \A n \in UploadsOf(j) :
                       /\ DataOf(n).chunk_index = 0
                       /\ DataOf(n).total_chunks = 1
                       /\ DataOf(n).file_name = files[j].name
                       /\ DataOf(n).file_data =
                              Base64([file |-> j, start |-> 0, end |-> files[j].size])
            ELSE Cardinality(UploadsOf(j)) >= 2

C20_Witness ==
    /\ pc = "returned"
    /\ Len(files) = 3
    /\ files[1].size = 10 * 1024 * 1024
    /\ files[2].size = 0
    /\ files[3].size = 10 * 1024 * 1024 + 1
    /\ Cardinality(Uploads) = 4

====
